---- MODULE Spec2Model ----
(***************************************************************************)
(* wintempclean: the recursive cleaning engine of src/src/main.rs.         *)
(*                                                                         *)
(* The file system is a bounded tree of paths.  What a path is (file or    *)
(* directory), how long ago it was created and which file-system calls     *)
(* fail on it are fixed when the run starts; which paths are still on disk *)
(* changes as the walker removes them.  remove_dir_contents and            *)
(* remove_entry are operators computed as the code computes them; they     *)
(* thread the disk and a trace of the file-system calls they issue.        *)
(* begin_cleaning is the state machine around them: one step per root.     *)
(***************************************************************************)
EXTENDS Integers, Sequences, FiniteSets, TLC

VARIABLES kind, created, faults, disk, disk0, config, pc, queue, reports, log

vars == <<kind, created, faults, disk, disk0, config, pc, queue, reports, log>>

(***************************************************************************)
(* Bounds.                                                                 *)
(***************************************************************************)
\* At most this many file-system calls are set to fail in one tree.
MaxFaults == 1
\* The non-zero --created-before duration that is tried, in seconds.
CutoffSecs == 1

(***************************************************************************)
(* The file system.                                                        *)
(***************************************************************************)
\* The temp directories, in the order they are cleaned: "W" is
\* C:\Windows\Temp and "P" is C:\ProgramData\Temp (C:\Users has no entry).
get_temp_directories == <<"W", "P">>

\* The entries that may exist beneath the roots.
Inner == {"a", "b", "c", "d", "e"}

Paths == {"W", "P"} \cup Inner

\* The entries read_dir yields for a directory, in the order it yields them.
Children ==
  [p \in Paths |->
     CASE p = "W" -> <<"a", "b">>
       [] p = "a" -> <<"c", "d">>
       [] p = "c" -> <<"e">>
       [] OTHER -> <<>>]

Range(s) == {s[i] : i \in 1..Len(s)}

Parent(p) == CHOOSE q \in Paths : p \in Range(Children[q])

RECURSIVE Descendants(_)
\* The paths strictly beneath p.
Descendants(p) ==
  UNION {{c} \cup Descendants(c) : c \in Range(Children[p])}

\* meta.len(): every path has its own size, a distinct power of two, so that a
\* sum of sizes tells which entries were summed.
Size ==
  [p \in Paths |->
     CASE p = "a" -> 1 [] p = "b" -> 2 [] p = "c" -> 4
       [] p = "d" -> 8 [] p = "e" -> 16 [] OTHER -> 0]

\* The file-system calls of the walker that can fail on a path:
\*   list     fs::read_dir(path) fails
\*   iter     the directory iterator yields Err for this entry
\*   meta     fs::metadata(entry.path()) fails
\*   created  meta.created() fails (the creation time cannot be read)
\*   clock    meta.created()?.elapsed() fails (creation time in the future)
\*   remove   fs::remove_file / fs::remove_dir fails though the entry could go
FaultKinds == {"list", "iter", "meta", "created", "clock", "remove"}

Failing(p, k) == <<p, k>> \in faults

\* --created-before: absent (zero) or the cutoff.
Sinces == {0, CutoffSecs}

\* Elapsed time since creation: just short of the cutoff, or exactly the cutoff.
Ages == {CutoffSecs - 1, CutoffSecs}

(***************************************************************************)
(* Stats (main.rs 15-35).                                                  *)
(***************************************************************************)
Stats_new == [errors_total |-> 0, removed_bytes |-> 0, removed_count |-> 0]

\* Stats_add with removed_count left out of the sum.
Stats_add_drops_count(self, stats) ==
  [errors_total |-> self.errors_total + stats.errors_total,
   removed_bytes |-> self.removed_bytes + stats.removed_bytes,
   removed_count |-> self.removed_count]

Stats_add(self, stats) ==
  [errors_total |-> self.errors_total + stats.errors_total,
   removed_bytes |-> self.removed_bytes + stats.removed_bytes,
   removed_count |-> self.removed_count + stats.removed_count]

\* add_error with the increment forgotten.
add_error_forgotten(stats) == stats

\* stats.errors_total += 1
add_error(stats) == [stats EXCEPT !.errors_total = @ + 1]

\* stats.removed_bytes += size; stats.removed_count += 1
add_removed(stats, size) ==
  [stats EXCEPT !.removed_bytes = @ + size, !.removed_count = @ + 1]

(***************************************************************************)
(* The world a call works on: the paths on disk and the trace of the       *)
(* file-system calls issued so far.                                        *)
(***************************************************************************)
Ev(op, path, ok, flag, stats) ==
  [op |-> op, path |-> path, ok |-> ok, flag |-> flag, stats |-> stats]

Emit(w, e) == [w EXCEPT !.log = Append(@, e)]

\* path.is_dir() / meta.is_dir()
is_dir(path) == kind[path] = "dir"

\* Whether a directory has no entry left on disk.
IsEmpty(path, d) == Range(Children[path]) \cap d = {}

\* fs::read_dir(path): the entries on disk, or an error.
read_dir_ok(path, w) == path \in w.disk /\ is_dir(path) /\ ~Failing(path, "list")

read_dir(path, w) == SelectSeq(Children[path], LAMBDA c : c \in w.disk)

\* fs::remove_file(path)
remove_file(path, w) ==
  LET ok == path \in w.disk /\ ~Failing(path, "remove")
  IN  [ok |-> ok,
       w |-> Emit([w EXCEPT !.disk = IF ok THEN @ \ {path} ELSE @],
                  Ev("remove_file", path, ok, TRUE, Stats_new))]

\* fs::remove_dir(path): non-recursive, fails on a directory that is not empty.
\* The event's flag records whether the directory was empty when the call was
\* issued.
remove_dir(path, w) ==
  LET empty == IsEmpty(path, w.disk)
      ok == path \in w.disk /\ empty /\ ~Failing(path, "remove")
  IN  [ok |-> ok,
       w |-> Emit([w EXCEPT !.disk = IF ok THEN @ \ {path} ELSE @],
                  Ev("remove_dir", path, ok, empty, Stats_new))]

(***************************************************************************)
(* remove_entry (main.rs 207-228).                                         *)
(***************************************************************************)
\* remove_entry without the dry_run test.
remove_entry_ignores_dry_run(entry, cfg, w) ==
  IF is_dir(entry) THEN remove_dir(entry, w) ELSE remove_file(entry, w)

remove_entry(entry, cfg, w) ==
  IF ~cfg.dry_run
    THEN IF is_dir(entry) THEN remove_dir(entry, w) ELSE remove_file(entry, w)
    ELSE [ok |-> TRUE, w |-> w]

(***************************************************************************)
(* remove_dir_contents (main.rs 142-205).                                  *)
(***************************************************************************)
\* meta.created()?.elapsed().unwrap_or_else(.. Duration::from_secs(0))
elapsed_since_create(entry) ==
  IF Failing(entry, "clock") THEN 0 ELSE created[entry]

\* eligible without the skip_date_check disjunct.
eligible_ignores_skip(skip_date_check, elapsed, cfg) == elapsed >= cfg.since

\* eligible with the comparison turned round.
eligible_reversed(skip_date_check, elapsed, cfg) ==
  skip_date_check \/ elapsed <= cfg.since

\* if skip_date_check || elapsed_since_create >= config.since
eligible(skip_date_check, elapsed, cfg) ==
  skip_date_check \/ elapsed >= cfg.since

\* after_sub_error with `continue` in place of `return Ok(stats)`.
after_sub_error_continue(rest) == rest

\* The entries still to be looped over once a recursive call has failed:
\* `return Ok(stats)` leaves the loop.
after_sub_error(rest) == <<>>

\* Err with the failure swallowed: the call returns Ok with empty Stats.
Err_as_Ok(path, w) ==
  [ok |-> TRUE, stats |-> Stats_new,
   w |-> Emit(w, Ev("return", path, TRUE, FALSE, Stats_new))]

\* The Stats a call that fails with `?` hands to its caller: none (Err carries
\* no Stats).
Err(path, w) ==
  [ok |-> FALSE, stats |-> Stats_new,
   w |-> Emit(w, Ev("return", path, FALSE, FALSE, Stats_new))]

Ok(path, stats, w) ==
  [ok |-> TRUE, stats |-> stats,
   w |-> Emit(w, Ev("return", path, TRUE, FALSE, stats))]

\* remove_and_count counting an entry only when it was removed for real.
remove_and_count_unless_dry(entry, cfg, stats, w) ==
  LET r == remove_entry(entry, cfg, w)
  IN  [stats |-> IF ~r.ok THEN add_error(stats)
                 ELSE IF cfg.dry_run THEN stats
                 ELSE add_removed(stats, Size[entry]),
       w |-> r.w]

\* if let Err(err) = remove_entry(..) { errors_total += 1 } else { bytes, count }
remove_and_count(entry, cfg, stats, w) ==
  LET r == remove_entry(entry, cfg, w)
  IN  [stats |-> IF r.ok THEN add_removed(stats, Size[entry]) ELSE add_error(stats),
       w |-> r.w]

RECURSIVE remove_dir_contents(_, _, _, _)
RECURSIVE entry_loop(_, _, _, _, _, _)

\* for entry in entries { .. }  Ok(stats)
\* Every iteration first records an "entry" event: the Stats of the call so
\* far, whether the entry got past `entry?`, the metadata read and
\* meta.created()?, and whether it was then found eligible.
entry_loop(path, entries, cfg, skip_date_check, stats, w) ==
  IF entries = <<>> THEN Ok(path, stats, w)
  ELSE
    LET entry == Head(entries)
        rest == Tail(entries)
        readable == /\ ~Failing(entry, "iter")
                    /\ ~Failing(entry, "meta")
                    /\ ~Failing(entry, "created")
        yes == readable
               /\ eligible(skip_date_check, elapsed_since_create(entry), cfg)
        w1 == Emit(w, Ev("entry", entry, readable, yes, stats))
    IN
    IF Failing(entry, "iter") THEN Err(path, w1)                 \* entry?
    ELSE IF Failing(entry, "meta")                               \* continue
      THEN entry_loop(path, rest, cfg, skip_date_check, add_error(stats), w1)
    ELSE IF Failing(entry, "created") THEN Err(path, w1)         \* meta.created()?
    ELSE IF ~yes THEN entry_loop(path, rest, cfg, skip_date_check, stats, w1)
    ELSE IF is_dir(entry)
      THEN
        LET sub == remove_dir_contents(entry, cfg, TRUE, w1)
        IN  IF sub.ok
              THEN LET r == remove_and_count(entry, cfg,
                                             Stats_add(stats, sub.stats), sub.w)
                   IN  entry_loop(path, rest, cfg, skip_date_check, r.stats, r.w)
              ELSE entry_loop(path, after_sub_error(rest), cfg, skip_date_check,
                              add_error(stats), sub.w)
      ELSE
        LET r == remove_and_count(entry, cfg, stats, w1)
        IN  entry_loop(path, rest, cfg, skip_date_check, r.stats, r.w)

remove_dir_contents(path, cfg, skip_date_check, w) ==
  LET w1 == Emit(w, Ev("read_dir", path, read_dir_ok(path, w), skip_date_check,
                       Stats_new))
  IN  IF ~read_dir_ok(path, w) THEN Err(path, w1)
      ELSE entry_loop(path, read_dir(path, w), cfg, skip_date_check, Stats_new, w1)

(***************************************************************************)
(* The initial file systems.                                               *)
(***************************************************************************)
Kinds == {"absent", "file", "dir"}

\* The paths that are files whenever they exist.
FilesOnly == {"d", "e"}

\* The roots that exist in every tree (the missing root is the first one).
AlwaysThere == {"P"}

\* A path exists only inside an existing directory; only directories have
\* entries; the roots are directories when they exist.
WellFormed(k) ==
  /\ \A r \in Range(get_temp_directories) : k[r] \in {"absent", "dir"}
  /\ \A r \in AlwaysThere : k[r] = "dir"
  /\ \A p \in Inner : k[p] # "absent" => k[Parent(p)] = "dir"
  /\ \A p \in FilesOnly : k[p] # "dir"

\* The calls that can be set to fail in a tree (the root that is always there
\* can always be listed).
FaultPoints(k) ==
  {<<p, "list">> : p \in {q \in Paths \ AlwaysThere : k[q] = "dir"}}
  \cup {<<p, f>> : p \in {q \in Inner : k[q] # "absent"},
                   f \in FaultKinds \ {"list"}}

RECURSIVE SubsetsUpTo(_, _)
SubsetsUpTo(S, n) ==
  IF n = 0 THEN {{}}
  ELSE LET prev == SubsetsUpTo(S, n - 1)
       IN  prev \cup {T \cup {x} : T \in prev, x \in S}

Init ==
  /\ kind \in {k \in [Paths -> Kinds] : WellFormed(k)}
  /\ created \in {c \in [Paths -> Ages] :
                    \A p \in Paths : (kind[p] = "absent" \/ p \notin Inner)
                                       => c[p] = CutoffSecs}
  /\ faults \in SubsetsUpTo(FaultPoints(kind), MaxFaults)
  /\ disk = {p \in Paths : kind[p] # "absent"}
  /\ disk0 = disk
  /\ config = [dry_run |-> FALSE, since |-> 0]
  /\ pc = "start"
  /\ queue = <<>>
  /\ reports = <<>>
  /\ log = <<>>

(***************************************************************************)
(* run / begin_cleaning (main.rs 44-61, 104-124).                          *)
(***************************************************************************)
\* run: build_config from the arguments, then begin_cleaning up to the result
\* of get_temp_directories()?, which fails when C:\Users cannot be listed.
run(dry_run, since, users_ok) ==
  /\ pc = "start"
  /\ config' = [dry_run |-> dry_run, since |-> since]
  /\ IF users_ok
       THEN pc' = "cleaning" /\ queue' = get_temp_directories
       ELSE pc' = "failed" /\ queue' = <<>>
  /\ UNCHANGED <<kind, created, faults, disk, disk0, reports, log>>

\* One iteration of `for tmp_path in ..`: a root that exists is cleaned, and
\* its Stats are printed when the call returns Ok.  After the last root
\* begin_cleaning returns Ok(()) and run returns Ok(0).
begin_cleaning ==
  /\ pc = "cleaning"
  /\ queue # <<>>
  /\ LET tmp_path == Head(queue)
         r == remove_dir_contents(tmp_path, config, FALSE,
                                  [disk |-> disk, log |-> log])
     IN  IF tmp_path \in disk
           THEN /\ disk' = r.w.disk
                /\ log' = r.w.log
                /\ reports' = IF r.ok
                                THEN Append(reports, [path |-> tmp_path,
                                                      stats |-> r.stats])
                                ELSE reports
           ELSE UNCHANGED <<disk, log, reports>>
  /\ queue' = Tail(queue)
  /\ pc' = IF Tail(queue) = <<>> THEN "done" ELSE "cleaning"
  /\ UNCHANGED <<kind, created, faults, disk0, config>>

Next ==
  \/ \E dry_run \in BOOLEAN, since \in Sinces, users_ok \in BOOLEAN :
       run(dry_run, since, users_ok)
  \/ begin_cleaning

Spec == Init /\ [][Next]_vars

(***************************************************************************)
(* Vocabulary of the properties.                                           *)
(***************************************************************************)
IsRoot(p) == p \in Range(get_temp_directories)

\* p and everything beneath it.
Subtree(p) == {p} \cup Descendants(p)

Removes == {"remove_file", "remove_dir"}

RECURSIVE SumSize(_)
SumSize(S) ==
  IF S = {} THEN 0
  ELSE LET x == CHOOSE y \in S : TRUE IN Size[x] + SumSize(S \ {x})

IndexIn(s, p) == CHOOSE i \in 1..Len(s) : s[i] = p

\* The entries after p in the listing that p's directory was read with.
LaterSiblings(p) ==
  LET s == Children[Parent(p)]
  IN  {s[j] : j \in (IndexIn(s, p) + 1)..Len(s)} \cap disk0

\* The roots cleaned after root r.
LaterRoots(r) ==
  LET s == get_temp_directories
  IN  {s[j] : j \in (IndexIn(s, r) + 1)..Len(s)} \cap disk0

NoFaultIn(S) == \A f \in faults : f[1] \notin S

\* Event i is the "entry" event of path p.
EntryOf(i, p) == log[i].op = "entry" /\ log[i].path = p

\* Path p was taken from its directory's iterator after event i.
VisitedAfter(i, p) == \E j \in DOMAIN log : j > i /\ EntryOf(j, p)

\* Nothing was done to p or beneath it: no listing, no entry step, no removal.
Untouched(p) == \A j \in DOMAIN log : log[j].path \notin Subtree(p)

\* A root is about to be cleaned.
RootPending == pc = "cleaning" /\ queue # <<>> /\ Head(queue) \in disk

\* What remove_dir_contents returns for the pending root under either setting
\* of dry_run, on the disk as it is now.
RunOn(dry_run) ==
  remove_dir_contents(Head(queue), [dry_run |-> dry_run, since |-> config.since],
                      FALSE, [disk |-> disk, log |-> <<>>])

RemovalFailed(r) ==
  \E i \in DOMAIN r.w.log : r.w.log[i].op \in Removes /\ ~r.w.log[i].ok

TypeOK ==
  /\ disk \subseteq disk0
  /\ pc \in {"start", "cleaning", "failed", "done"}

(***************************************************************************)
(* C1. Age cascade.                                                        *)
(***************************************************************************)
\* The case of C1: entry event i is that of a directory D, an immediate entry
\* of a root (a call with skip_date_check = false), whose age has reached the
\* cutoff, in a run that removes for real and in which no file-system call on
\* D or beneath it fails.
C1_Case(i) ==
  /\ ~config.dry_run
  /\ log[i].op = "entry" /\ log[i].ok
  /\ IsRoot(Parent(log[i].path))
  /\ is_dir(log[i].path)
  /\ created[log[i].path] >= config.since
  /\ NoFaultIn(Subtree(log[i].path))

\* C1: once an immediate entry D of a root is a directory whose age is >= the
\* cutoff, D and every entry beneath it are removed whatever their own ages,
\* and every call on D or beneath it runs with skip_date_check = true.
C1_AgeCascade ==
  \A i \in DOMAIN log :
    C1_Case(i) =>
      /\ Subtree(log[i].path) \cap disk = {}
      /\ \A j \in DOMAIN log :
           (log[j].op = "read_dir" /\ log[j].path \in Subtree(log[i].path))
             => log[j].flag

\* A directory that reached the cutoff went together with an entry beneath it
\* that had not, two levels down.
C1_Witness ==
  \E i \in DOMAIN log :
    /\ C1_Case(i)
    /\ config.since = CutoffSecs
    /\ \E F \in Descendants(log[i].path) \cap disk0 :
         /\ created[F] < config.since
         /\ Parent(F) # log[i].path
         /\ F \notin disk

ListingFailed(i) == log[i].op = "read_dir" /\ ~log[i].ok

\* C3 as claimed: when a directory cannot be listed its caller goes on to
\* process its own remaining entries (a parent call: the entries after the
\* directory; the driver: the roots after it).
C3_Original ==
  \A i \in DOMAIN log :
    ListingFailed(i) =>
      IF IsRoot(log[i].path)
        THEN queue = <<>> =>
               \A r \in LaterRoots(log[i].path) :
                 \E j \in DOMAIN log : log[j].op = "read_dir" /\ log[j].path = r
        ELSE \A s \in LaterSiblings(log[i].path) : VisitedAfter(i, s)

\* C3 as amended: when a directory X cannot be listed, the call on X returns
\* Err at once and touches nothing beneath X.  A parent call adds exactly one
\* error and returns Ok with its Stats so far without processing the entries
\* after X; the caller of that parent goes on with the entry after the parent.
\* The driver records nothing for a root that cannot be listed (no Stats are
\* reported) and goes on with the next root.
C3_SubtreeFatal ==
  \A i \in DOMAIN log :
    ListingFailed(i) =>
      LET X == log[i].path IN
      /\ log[i + 1] = Ev("return", X, FALSE, FALSE, Stats_new)
      /\ \A c \in Range(Children[X]) : Untouched(c)
      /\ IF IsRoot(X)
           THEN /\ \A k \in DOMAIN reports : reports[k].path # X
                /\ queue = <<>> =>
                     \A r \in LaterRoots(X) :
                       \E j \in DOMAIN log :
                         log[j].op = "read_dir" /\ log[j].path = r
           ELSE /\ EntryOf(i - 1, X)
                /\ log[i + 2] = Ev("return", Parent(X), TRUE, FALSE,
                                   add_error(log[i - 1].stats))
                /\ \A s \in LaterSiblings(X) : Untouched(s)
                /\ IF IsRoot(Parent(X))
                     THEN \E k \in DOMAIN reports :
                            reports[k] = [path |-> Parent(X),
                                          stats |-> log[i + 2].stats]
                     ELSE \A s \in LaterSiblings(Parent(X)) :
                            VisitedAfter(i + 2, s)

\* The listing of a directory two levels down failed with an entry after it
\* in its parent and an entry after its parent.
C3_Witness ==
  \E i \in DOMAIN log :
    /\ ListingFailed(i)
    /\ ~IsRoot(log[i].path)
    /\ ~IsRoot(Parent(log[i].path))
    /\ LaterSiblings(log[i].path) # {}
    /\ LaterSiblings(Parent(log[i].path)) # {}

(***************************************************************************)
(* C4. An entry whose creation time cannot be read.                        *)
(***************************************************************************)
\* The loop reached meta.created() for the entry of event i and it failed.
CreatedFailed(i) ==
  /\ log[i].op = "entry"
  /\ Failing(log[i].path, "created")
  /\ ~Failing(log[i].path, "iter")
  /\ ~Failing(log[i].path, "meta")

\* C4: an entry whose creation time cannot be read is left on disk, is not
\* counted as removed, and the walker continues with the next entry of the
\* same directory instead of aborting the call.
C4_Original ==
  \A i \in DOMAIN log :
    CreatedFailed(i) =>
      /\ log[i].path \in disk
      /\ ~log[i].flag
      /\ ~(log[i + 1].op = "return" /\ ~log[i + 1].ok)
      /\ \A s \in LaterSiblings(log[i].path) : VisitedAfter(i, s)

(***************************************************************************)
(* C5. Fault isolation for metadata.                                       *)
(***************************************************************************)
\* The case of C5: event i is the return of the call on a directory one of
\* whose entries has an unreadable metadata, and nothing else fails.
C5_Case(i) ==
  /\ log[i].op = "return"
  /\ \E m \in Range(Children[log[i].path]) : faults = {<<m, "meta">>}

\* The entries the call on directory d is due to remove when the metadata of
\* its entry m cannot be read: the other entries that are eligible, with all
\* that is beneath them.
C5_Due(d, m) ==
  LET others == (Range(Children[d]) \cap disk0) \ {m}
      elig == {s \in others : ~IsRoot(d) \/ created[s] >= config.since}
  IN  UNION {Subtree(s) \cap disk0 : s \in elig}

\* C5: if the metadata read fails for exactly one entry of a directory and
\* nothing else fails, the call returns Ok with errors_total = 1, the failed
\* entry stays on disk and is not counted, and every other eligible entry is
\* counted (count and bytes) and, unless dry_run, removed.
C5_MetadataFaultIsolation ==
  \A i \in DOMAIN log :
    C5_Case(i) =>
      LET d == log[i].path
          m == CHOOSE x \in Range(Children[d]) : faults = {<<x, "meta">>}
      IN  /\ log[i].ok
          /\ log[i].stats.errors_total = 1
          /\ Subtree(m) \cap disk0 \subseteq disk
          /\ log[i].stats.removed_count = Cardinality(C5_Due(d, m))
          /\ log[i].stats.removed_bytes = SumSize(C5_Due(d, m))
          /\ ~config.dry_run => C5_Due(d, m) \cap disk = {}

\* A root call with one unreadable entry removed a whole directory besides.
C5_Witness ==
  \E i \in DOMAIN log :
    /\ C5_Case(i)
    /\ ~config.dry_run
    /\ IsRoot(log[i].path)
    /\ log[i].stats.errors_total = 1
    /\ log[i].stats.removed_count >= 2

(***************************************************************************)
(* C6. Age exclusion.                                                      *)
(***************************************************************************)
\* The case of C6: entry event i is that of an entry whose metadata and
\* creation time were read, in a call with skip_date_check = false, and whose
\* age is less than the cutoff.
C6_Case(i) ==
  /\ log[i].op = "entry" /\ log[i].ok
  /\ \E k \in DOMAIN log :
       /\ k < i
       /\ log[k].op = "read_dir" /\ log[k].path = Parent(log[i].path)
       /\ ~log[k].flag
  /\ elapsed_since_create(log[i].path) < config.since

\* C6: in a call with skip_date_check = false an entry younger than the cutoff
\* is skipped entirely: it and everything beneath it stay on disk, no call is
\* made on it, no removal is issued for it, and the Stats of the call are the
\* same at the next step of the loop.
C6_AgeExclusion ==
  \A i \in DOMAIN log :
    C6_Case(i) =>
      /\ ~log[i].flag
      /\ Subtree(log[i].path) \cap disk0 \subseteq disk
      /\ \A j \in DOMAIN log : j # i => log[j].path \notin Subtree(log[i].path)
      /\ log[i + 1].op \in {"entry", "return"}
      /\ log[i + 1].stats = log[i].stats
      /\ log[i + 1].op = "return" =>
           log[i + 1].ok /\ log[i + 1].path = Parent(log[i].path)

\* A young directory with an entry in it was skipped by a call that went on
\* to remove the entry after it.
C6_Witness ==
  \E i \in DOMAIN log :
    /\ C6_Case(i)
    /\ ~config.dry_run
    /\ is_dir(log[i].path)
    /\ Descendants(log[i].path) \cap disk # {}
    /\ \E s \in LaterSiblings(log[i].path) : s \notin disk

(***************************************************************************)
(* C7. Dry-run leaves the file system unchanged.                           *)
(***************************************************************************)
\* C7: with dry_run = true no file removal and no directory removal is issued
\* and the paths on disk stay those the run started with.
C7_DryRunLeavesDisk ==
  config.dry_run =>
    /\ disk = disk0
    /\ \A i \in DOMAIN log : log[i].op \notin Removes

\* A finished dry run that reported removals and an error.
C7_Witness ==
  /\ config.dry_run
  /\ pc = "done"
  /\ \E k \in DOMAIN reports :
       /\ reports[k].stats.removed_count >= 2
       /\ reports[k].stats.errors_total >= 1

(***************************************************************************)
(* C8. Directory removals and emptiness.                                   *)
(***************************************************************************)
\* C8 as claimed: every directory removal the walker issues targets a
\* directory that has no entry left at that moment.
C8_Original ==
  \A i \in DOMAIN log : log[i].op = "remove_dir" => log[i].flag

\* C8 as amended: every directory removal is issued right after the recursive
\* call on that directory returned Ok; the directory is empty at that moment
\* exactly when that call returned errors_total = 0, and a removal issued on a
\* directory that is not empty fails.
C8_RemoveDirAfterRecursion ==
  \A i \in DOMAIN log :
    log[i].op = "remove_dir" =>
      /\ i > 1
      /\ log[i - 1].op = "return"
      /\ log[i - 1].path = log[i].path
      /\ log[i - 1].ok
      /\ log[i].flag <=> (log[i - 1].stats.errors_total = 0)
      /\ ~log[i].flag => (~log[i].ok /\ log[i].path \in disk)

\* One directory was removed empty and another removal was issued on a
\* directory that still had an entry.
C8_Witness ==
  \E i, j \in DOMAIN log :
    /\ log[i].op = "remove_dir" /\ log[i].flag /\ log[i].ok
    /\ log[j].op = "remove_dir" /\ ~log[j].flag

(***************************************************************************)
(* C9. Early exit.                                                         *)
(***************************************************************************)
\* Event i is the failed return of a recursive call.
SubCallFailed(i) ==
  log[i].op = "return" /\ ~log[i].ok /\ ~IsRoot(log[i].path)

\* C9: when the recursive call on a subdirectory S of P returns an error, P
\* adds exactly one to errors_total, issues no removal for S, processes no
\* further entry of P and returns Ok with the Stats accumulated so far; P's
\* caller gets Ok: the driver reports P's Stats, a parent call goes on with
\* the entry after P.
C9_EarlyExit ==
  \A i \in DOMAIN log :
    SubCallFailed(i) =>
      LET S == log[i].path
          P == Parent(log[i].path)
          e == CHOOSE j \in DOMAIN log : EntryOf(j, log[i].path)
      IN  /\ e < i
          /\ log[i + 1] = Ev("return", P, TRUE, FALSE, add_error(log[e].stats))
          /\ \A k \in DOMAIN log : log[k].op \in Removes => log[k].path # S
          /\ S \in disk
          /\ \A s \in LaterSiblings(S) : Untouched(s)
          /\ IF IsRoot(P)
               THEN \E k \in DOMAIN reports :
                      reports[k] = [path |-> P, stats |-> log[i + 1].stats]
               ELSE /\ ~(log[i + 2].op = "return" /\ ~log[i + 2].ok)
                    /\ \A s \in LaterSiblings(P) : VisitedAfter(i + 1, s)

\* A recursive call two levels down failed with an entry left unprocessed
\* after it, and the caller of its parent had an entry after the parent.
C9_Witness ==
  \E i \in DOMAIN log :
    /\ SubCallFailed(i)
    /\ ~config.dry_run
    /\ ~IsRoot(Parent(log[i].path))
    /\ LaterSiblings(log[i].path) # {}
    /\ LaterSiblings(Parent(log[i].path)) # {}
    /\ log[i + 1].stats.errors_total = 1

(***************************************************************************)
(* C10. The statistics account for every removal.                          *)
(***************************************************************************)
\* C10: in a run with dry_run = false, the Stats reported for a root whose
\* call returned Ok count exactly the entries deleted beneath that root:
\* removed_count is their number and removed_bytes the sum of their sizes.
C10_Original ==
  ~config.dry_run =>
    \A k \in DOMAIN reports :
      LET deleted == (disk0 \ disk) \cap Descendants(reports[k].path)
      IN  /\ reports[k].stats.removed_count = Cardinality(deleted)
          /\ reports[k].stats.removed_bytes = SumSize(deleted)
====
